---- MODULE Spec2Model ----
(***************************************************************************)
(* Model of the MSI thermal monitor service (manager.py) and of the        *)
(* gateway script it shells out to (main.py).                              *)
(*                                                                         *)
(* Execution contexts:                                                     *)
(*   - the controlling (main) thread running main(): start(), the wait     *)
(*     loop, and the signal handler, which Python runs on the main thread; *)
(*   - the daemon loop thread(s) running monitor_loop().                   *)
(* The loop thread is modelled statement by statement wherever it touches  *)
(* state shared with the main thread.  stop() always ends in sys.exit(0),  *)
(* so the process ends after the first stop(): main() never starts the     *)
(* monitor a second time.  The clock is taken to be monotonic.             *)
(***************************************************************************)
EXTENDS Integers, Sequences, FiniteSets

(* ===== CONFIGURATION (manager.py 15-29) ===== *)
CPU_TEMP_THRESHOLD == 60
GPU_TEMP_THRESHOLD == 60
TEMP_OSCILLATION_FIX == 5
TIME_OSCILLATION_FIX == 60

(* ===== bounds of the model ===== *)
\* the clock stops advancing at MaxTime
MaxTime == 92

\* elapsed wall-clock time is observed in these increments
TickSteps == {30, 31}

\* identities for loop threads: start() makes a new Thread object each time
\* it gets past its checks; main() calls start() once, so one is ever used
Threads == {1, 2}

\* Python's None, and a present value v
None == <<>>
Some(v) == <<v>>
IsNone(x) == x = <<>>
Val(x) == x[1]

VARIABLES
    running,                      \* self.running
    cooler_boost_enabled,         \* self.cooler_boost_enabled
    last_coolerboost_enabled_at,  \* self.last_coolerboost_enabled_at
    monitor_thread,               \* self.monitor_thread (None: attribute not set)
    disable_on_exit,              \* DISABLE_COOLER_BOOST_ON_EXIT, fixed at load
    script_ok,                    \* main.py exists and is readable
    now,                          \* time.time(), whole seconds
    cooler_file,                  \* sysfs cooler_boost: TRUE = "on"
    pc,                           \* position of each loop thread
    cpu_temp, gpu_temp,           \* locals of check_temperatures
    should_enable,                \* local of check_temperatures
    wr_enable,                    \* argument of the set_cooler_boost call in progress
    wr_output,                    \* its run_main_script result
    wrote,                        \* set_cooler_boost call made by the current cycle
    raised,                       \* the current cycle ended in the except branch
    prev_failed,                  \* the cycle before the current one had a failed
                                  \* read, a failed write or an exception (history)
    mpc,                          \* position of the main thread
    m_output,                     \* run_main_script result inside stop()
    start_result,                 \* value returned by start()
    stop_flag_set,                \* stop() has executed line 201
    enabled_since                 \* while cooler_boost_enabled: the time it last
                                  \* changed from False to True; else 0 (history)

vars == <<running, cooler_boost_enabled, last_coolerboost_enabled_at,
          monitor_thread, disable_on_exit, script_ok, now, cooler_file,
          pc, cpu_temp, gpu_temp, should_enable, wr_enable, wr_output,
          wrote, raised, prev_failed, mpc, m_output, start_result,
          stop_flag_set, enabled_since>>

shared == <<running, cooler_boost_enabled, last_coolerboost_enabled_at,
            monitor_thread, cooler_file, enabled_since>>
config == <<disable_on_exit, script_ok>>
mainv == <<mpc, m_output, start_result, stop_flag_set>>
locals == <<cpu_temp, gpu_temp, should_enable, wr_enable, wr_output, wrote,
            raised, prev_failed>>

(***************************************************************************)
(* main.py: the gateway script                                             *)
(***************************************************************************)
\* what the sysfs temperature file can hold / how reading it can go
SysfsReads ==
    {[st |-> "missing", v |-> 0], [st |-> "invalid", v |-> 0]}
    \cup {[st |-> "ok", v |-> n] : n \in {54, 55, 60, 61}}

\* get_cpu_temperature / get_gpu_temperature: f"{int(raw)}.0 C"
FormatTemperature(n) == <<n, 0>>

\* main(): "<label>: <temp>" on stdout with exit status 0, or exit status 1
MainScriptTemp(label, rd) ==
    IF rd.st = "ok"
       THEN [returncode |-> 0, stdout |-> <<label, FormatTemperature(rd.v)>>]
       ELSE [returncode |-> 1, stdout |-> <<>>]

\* outcomes of the sysfs write in MSIECController.set_cooler_boost
SysfsWrites == {"ok", "denied", "missing"}

MainScriptBoost(w) ==
    IF w = "ok" THEN [returncode |-> 0, stdout |-> <<"Cooler boost">>]
                ELSE [returncode |-> 1, stdout |-> <<>>]

(***************************************************************************)
(* manager.py: ThermalMonitor helpers                                      *)
(***************************************************************************)
\* how subprocess.run can end
RunKinds == {"completed", "timeout", "exception"}

\* run_main_script: stdout on exit status 0, None otherwise
run_main_script(kind, result) ==
    IF kind = "completed" /\ result.returncode = 0
       THEN Some(result.stdout)
       ELSE None

\* get_temperature: output.split(": ")[1], strip the unit, float()
get_temperature(output) ==
    IF IsNone(output) THEN None
    ELSE IF Len(Val(output)) < 2 THEN None
    ELSE Some(Val(output)[2][1])

\* lines 130-139
OverThreshold(cpu, gpu) ==
    \/ (~IsNone(cpu) /\ Val(cpu) > CPU_TEMP_THRESHOLD)
    \/ (~IsNone(gpu) /\ Val(gpu) > GPU_TEMP_THRESHOLD)

\* mutation: the floor itself counts as safe
cpu_safe_Inclusive(cpu) ==
    IsNone(cpu) \/ Val(cpu) <= CPU_TEMP_THRESHOLD - TEMP_OSCILLATION_FIX

\* mutation: an absent GPU reading counts as unsafe
gpu_safe_AbsentUnsafe(gpu) ==
    ~IsNone(gpu) /\ Val(gpu) < GPU_TEMP_THRESHOLD - TEMP_OSCILLATION_FIX

\* lines 143-144
cpu_safe(cpu) == IsNone(cpu) \/ Val(cpu) < CPU_TEMP_THRESHOLD - TEMP_OSCILLATION_FIX
gpu_safe(gpu) == IsNone(gpu) \/ Val(gpu) < GPU_TEMP_THRESHOLD - TEMP_OSCILLATION_FIX

\* mutation: once enabled, the oscillation block always keeps boost on
ShouldEnable_KeepWhileEnabled(cpu, gpu, enabled) ==
    OverThreshold(cpu, gpu) \/ enabled

\* lines 130-148: should_enable after the oscillation block
ShouldEnable(cpu, gpu, enabled) ==
    IF OverThreshold(cpu, gpu) THEN TRUE
    ELSE IF enabled /\ ~(cpu_safe(cpu) /\ gpu_safe(gpu)) THEN TRUE
    ELSE FALSE

\* mutation: the time margin compared with >=
TimeElapsed_AtLeast(t_now, t_last) == t_now - t_last >= TIME_OSCILLATION_FIX

\* line 156: the time condition of the disable branch
TimeElapsed(t_now, t_last) == t_now - t_last > TIME_OSCILLATION_FIX

ProcessAlive == mpc # "exit"

Init ==
    /\ running = FALSE
    /\ cooler_boost_enabled = FALSE
    /\ last_coolerboost_enabled_at = 0
    /\ monitor_thread = None
    /\ disable_on_exit \in BOOLEAN
    /\ script_ok \in BOOLEAN
    /\ now = 0
    /\ cooler_file = FALSE
    /\ pc = [t \in Threads |-> "unborn"]
    /\ cpu_temp = [t \in Threads |-> None]
    /\ gpu_temp = [t \in Threads |-> None]
    /\ should_enable = [t \in Threads |-> FALSE]
    /\ wr_enable = [t \in Threads |-> FALSE]
    /\ wr_output = [t \in Threads |-> None]
    /\ wrote = [t \in Threads |-> "none"]
    /\ raised = [t \in Threads |-> FALSE]
    /\ prev_failed = [t \in Threads |-> FALSE]
    /\ mpc = "start"
    /\ m_output = None
    /\ start_result = "pending"
    /\ stop_flag_set = FALSE
    /\ enabled_since = 0

\* wall-clock time passes
Tick ==
    /\ ProcessAlive
    /\ \E d \in TickSteps :
          /\ now + d <= MaxTime
          /\ now' = now + d
    /\ UNCHANGED <<shared, config, mainv, locals, pc>>

(***************************************************************************)
(* The loop thread: monitor_loop and check_temperatures                    *)
(***************************************************************************)
\* the current cycle of t had a failed read, a failed write or an exception
CycleFailed(t) ==
    \/ raised[t]
    \/ IsNone(cpu_temp[t])
    \/ IsNone(gpu_temp[t])
    \/ (wrote[t] # "none" /\ IsNone(wr_output[t]))

\* mutation: the loop gives up after a cycle that failed
LoopTest_StopAfterFailure(t) ==
    /\ ProcessAlive
    /\ pc[t] = "loop_test"
    /\ pc' = [pc EXCEPT ![t] =
                 IF running /\ ~prev_failed[t] THEN "read_cpu" ELSE "done"]
    /\ UNCHANGED <<shared, config, mainv, now, locals>>

\* mutation: while True
LoopTest_Forever(t) ==
    /\ ProcessAlive
    /\ pc[t] = "loop_test"
    /\ pc' = [pc EXCEPT ![t] = "read_cpu"]
    /\ UNCHANGED <<shared, config, mainv, now, locals>>

\* line 171: while self.running
LoopTest(t) ==
    /\ ProcessAlive
    /\ pc[t] = "loop_test"
    /\ pc' = [pc EXCEPT ![t] = IF running THEN "read_cpu" ELSE "done"]
    /\ UNCHANGED <<shared, config, mainv, now, locals>>

\* line 114: cpu_temp = self.get_temperature("cpu")
ReadCpu(t) ==
    /\ ProcessAlive
    /\ pc[t] = "read_cpu"
    /\ \E kind \in RunKinds, rd \in SysfsReads :
          cpu_temp' = [cpu_temp EXCEPT ![t] =
              get_temperature(run_main_script(kind,
                                  MainScriptTemp("CPU Temperature", rd)))]
    /\ pc' = [pc EXCEPT ![t] = "read_gpu"]
    /\ prev_failed' = [prev_failed EXCEPT ![t] = FALSE]
    /\ UNCHANGED <<shared, config, mainv, now, gpu_temp, should_enable,
                   wr_enable, wr_output, wrote, raised>>

\* line 115: gpu_temp = self.get_temperature("gpu")
ReadGpu(t) ==
    /\ ProcessAlive
    /\ pc[t] = "read_gpu"
    /\ \E kind \in RunKinds, rd \in SysfsReads :
          gpu_temp' = [gpu_temp EXCEPT ![t] =
              get_temperature(run_main_script(kind,
                                  MainScriptTemp("GPU Temperature", rd)))]
    /\ pc' = [pc EXCEPT ![t] = "decide"]
    /\ UNCHANGED <<shared, config, mainv, now, cpu_temp, should_enable,
                   wr_enable, wr_output, wrote, raised, prev_failed>>

\* mutation: no early return when both readings are absent
Decide_NoEarlyReturn(t) ==
    /\ ProcessAlive
    /\ pc[t] = "decide"
    /\ should_enable' = [should_enable EXCEPT ![t] =
           ShouldEnable(cpu_temp[t], gpu_temp[t], cooler_boost_enabled)]
    /\ pc' = [pc EXCEPT ![t] = "apply"]
    /\ UNCHANGED <<shared, config, mainv, now, cpu_temp, gpu_temp,
                   wr_enable, wr_output, wrote, raised, prev_failed>>

\* lines 117-148: the early return on no data, then should_enable
Decide(t) ==
    /\ ProcessAlive
    /\ pc[t] = "decide"
    /\ IF IsNone(cpu_temp[t]) /\ IsNone(gpu_temp[t])
          THEN /\ pc' = [pc EXCEPT ![t] = "sleep"]
               /\ UNCHANGED should_enable
          ELSE /\ should_enable' = [should_enable EXCEPT ![t] =
                      ShouldEnable(cpu_temp[t], gpu_temp[t], cooler_boost_enabled)]
               /\ pc' = [pc EXCEPT ![t] = "apply"]
    /\ UNCHANGED <<shared, config, mainv, now, cpu_temp, gpu_temp,
                   wr_enable, wr_output, wrote, raised, prev_failed>>

\* mutation: enabling waits for the time margin too
Apply_EnableTimeGated(t) ==
    /\ ProcessAlive
    /\ pc[t] = "apply"
    /\ IF /\ should_enable[t]
          /\ ~cooler_boost_enabled
          /\ TimeElapsed(now, last_coolerboost_enabled_at)
          THEN /\ wr_enable' = [wr_enable EXCEPT ![t] = TRUE]
               /\ wrote' = [wrote EXCEPT ![t] = "on"]
               /\ pc' = [pc EXCEPT ![t] = "run_write"]
          ELSE IF /\ ~should_enable[t]
                  /\ cooler_boost_enabled
                  /\ TimeElapsed(now, last_coolerboost_enabled_at)
          THEN /\ wr_enable' = [wr_enable EXCEPT ![t] = FALSE]
               /\ wrote' = [wrote EXCEPT ![t] = "off"]
               /\ pc' = [pc EXCEPT ![t] = "run_write"]
          ELSE /\ pc' = [pc EXCEPT ![t] = "sleep"]
               /\ UNCHANGED <<wr_enable, wrote>>
    /\ UNCHANGED <<shared, config, mainv, now, cpu_temp, gpu_temp,
                   should_enable, wr_output, raised, prev_failed>>

\* lines 150-164: which set_cooler_boost call, if any, the cycle makes
Apply(t) ==
    /\ ProcessAlive
    /\ pc[t] = "apply"
    /\ IF should_enable[t] /\ ~cooler_boost_enabled
          THEN /\ wr_enable' = [wr_enable EXCEPT ![t] = TRUE]
               /\ wrote' = [wrote EXCEPT ![t] = "on"]
               /\ pc' = [pc EXCEPT ![t] = "run_write"]
          ELSE IF /\ ~should_enable[t]
                  /\ cooler_boost_enabled
                  /\ TimeElapsed(now, last_coolerboost_enabled_at)
          THEN /\ wr_enable' = [wr_enable EXCEPT ![t] = FALSE]
               /\ wrote' = [wrote EXCEPT ![t] = "off"]
               /\ pc' = [pc EXCEPT ![t] = "run_write"]
          ELSE /\ pc' = [pc EXCEPT ![t] = "sleep"]
               /\ UNCHANGED <<wr_enable, wrote>>
    /\ UNCHANGED <<shared, config, mainv, now, cpu_temp, gpu_temp,
                   should_enable, wr_output, raised, prev_failed>>

\* line 102 and main.py 76-81: the gateway write, as a child process
RunWrite(t) ==
    /\ ProcessAlive
    /\ pc[t] = "run_write"
    /\ \E kind \in RunKinds, w \in SysfsWrites :
          /\ wr_output' = [wr_output EXCEPT ![t] =
                              run_main_script(kind, MainScriptBoost(w))]
          /\ cooler_file' = IF kind = "completed" /\ w = "ok"
                               THEN wr_enable[t] ELSE cooler_file
    /\ pc' = [pc EXCEPT ![t] = "set_state"]
    /\ UNCHANGED <<running, cooler_boost_enabled, last_coolerboost_enabled_at,
                   monitor_thread, enabled_since, config, mainv, now,
                   cpu_temp, gpu_temp, should_enable, wr_enable, wrote,
                   raised, prev_failed>>

\* mutation: the tracked state follows the attempt
SetState_Unconditional(t) ==
    /\ ProcessAlive
    /\ pc[t] = "set_state"
    /\ cooler_boost_enabled' = wr_enable[t]
    /\ enabled_since' =
          IF ~wr_enable[t] THEN 0
          ELSE IF ~cooler_boost_enabled THEN now
          ELSE enabled_since
    /\ pc' = [pc EXCEPT ![t] = IF wr_enable[t] THEN "stamp" ELSE "sleep"]
    /\ UNCHANGED <<running, last_coolerboost_enabled_at, monitor_thread,
                   cooler_file, config, mainv, now, locals>>

\* lines 104-110: the tracked state follows a confirmed write
SetState(t) ==
    /\ ProcessAlive
    /\ pc[t] = "set_state"
    /\ IF ~IsNone(wr_output[t])
          THEN /\ cooler_boost_enabled' = wr_enable[t]
               /\ enabled_since' =
                     IF ~wr_enable[t] THEN 0
                     ELSE IF ~cooler_boost_enabled THEN now
                     ELSE enabled_since
          ELSE UNCHANGED <<cooler_boost_enabled, enabled_since>>
    /\ pc' = [pc EXCEPT ![t] = IF wr_enable[t] THEN "stamp" ELSE "sleep"]
    /\ UNCHANGED <<running, last_coolerboost_enabled_at, monitor_thread,
                   cooler_file, config, mainv, now, locals>>

\* line 154: self.last_coolerboost_enabled_at = time.time()
Stamp(t) ==
    /\ ProcessAlive
    /\ pc[t] = "stamp"
    /\ last_coolerboost_enabled_at' = now
    /\ pc' = [pc EXCEPT ![t] = "sleep"]
    /\ UNCHANGED <<running, cooler_boost_enabled, monitor_thread, cooler_file,
                   enabled_since, config, mainv, now, locals>>

\* lines 175-177: an exception escaping check_temperatures unwinds its
\* frame and is logged by monitor_loop.  run_main_script and get_temperature
\* catch their own errors, and from the gateway write on the cycle only
\* assigns attributes and reads the clock, so an escaping exception is taken
\* to arise in the reading and deciding part (lines 114-152).
CycleException(t) ==
    /\ ProcessAlive
    /\ pc[t] \in {"read_cpu", "read_gpu", "decide", "apply"}
    /\ raised' = [raised EXCEPT ![t] = TRUE]
    /\ pc' = [pc EXCEPT ![t] = "sleep"]
    /\ cpu_temp' = [cpu_temp EXCEPT ![t] = None]
    /\ gpu_temp' = [gpu_temp EXCEPT ![t] = None]
    /\ should_enable' = [should_enable EXCEPT ![t] = FALSE]
    /\ wr_enable' = [wr_enable EXCEPT ![t] = FALSE]
    /\ wr_output' = [wr_output EXCEPT ![t] = None]
    /\ UNCHANGED <<shared, config, mainv, now, wrote, prev_failed>>

\* lines 174 and 177: time.sleep(CHECK_INTERVAL), then back to the loop test;
\* the locals of the finished check_temperatures call are gone
Sleep(t) ==
    /\ ProcessAlive
    /\ pc[t] = "sleep"
    /\ pc' = [pc EXCEPT ![t] = "loop_test"]
    /\ prev_failed' = [prev_failed EXCEPT ![t] = CycleFailed(t)]
    /\ cpu_temp' = [cpu_temp EXCEPT ![t] = None]
    /\ gpu_temp' = [gpu_temp EXCEPT ![t] = None]
    /\ should_enable' = [should_enable EXCEPT ![t] = FALSE]
    /\ wr_enable' = [wr_enable EXCEPT ![t] = FALSE]
    /\ wr_output' = [wr_output EXCEPT ![t] = None]
    /\ wrote' = [wrote EXCEPT ![t] = "none"]
    /\ raised' = [raised EXCEPT ![t] = FALSE]
    /\ UNCHANGED <<shared, config, mainv, now>>

LoopStep(t) ==
    \/ LoopTest(t)
    \/ ReadCpu(t)
    \/ ReadGpu(t)
    \/ Decide(t)
    \/ Apply(t)
    \/ RunWrite(t)
    \/ SetState(t)
    \/ Stamp(t)
    \/ Sleep(t)

(***************************************************************************)
(* The main thread: main(), start(), stop() and signal_handler             *)
(***************************************************************************)
\* mutation: start() without the check_main_script call
Start_NoCheck ==
    /\ mpc = "start"
    /\ IF running
          THEN /\ start_result' = "None"
               /\ mpc' = "exit"
               /\ UNCHANGED running
          ELSE /\ running' = TRUE
               /\ mpc' = "start_thread"
               /\ UNCHANGED start_result
    /\ UNCHANGED <<cooler_boost_enabled, last_coolerboost_enabled_at,
                   monitor_thread, cooler_file, enabled_since, config, now,
                   locals, pc, m_output, stop_flag_set>>

\* lines 179-190: start() up to self.running = True
Start ==
    /\ mpc = "start"
    /\ IF running
          THEN /\ start_result' = "None"
               /\ mpc' = "exit"
               /\ UNCHANGED running
          ELSE IF ~script_ok
          THEN /\ start_result' = "False"
               /\ mpc' = "exit"
               /\ UNCHANGED running
          ELSE /\ running' = TRUE
               /\ mpc' = "start_thread"
               /\ UNCHANGED start_result
    /\ UNCHANGED <<cooler_boost_enabled, last_coolerboost_enabled_at,
                   monitor_thread, cooler_file, enabled_since, config, now,
                   locals, pc, m_output, stop_flag_set>>

\* lines 191-194: the loop thread is created and started
StartThread ==
    /\ mpc = "start_thread"
    /\ \E t \in Threads :
          /\ pc[t] = "unborn"
          /\ \A u \in Threads : pc[u] = "unborn" => t <= u
          /\ monitor_thread' = Some(t)
          /\ pc' = [pc EXCEPT ![t] = "loop_test"]
    /\ start_result' = "True"
    /\ mpc' = "wait"
    /\ UNCHANGED <<running, cooler_boost_enabled, last_coolerboost_enabled_at,
                   cooler_file, enabled_since, config, now, locals, m_output,
                   stop_flag_set>>

\* the interpreter exits: daemon threads end where they are
ProcessExit ==
    /\ mpc' = "exit"
    /\ pc' = [t \in Threads |->
                IF pc[t] \in {"unborn", "done"} THEN pc[t] ELSE "killed"]
    /\ cpu_temp' = [t \in Threads |-> None]
    /\ gpu_temp' = [t \in Threads |-> None]
    /\ should_enable' = [t \in Threads |-> FALSE]
    /\ wr_enable' = [t \in Threads |-> FALSE]
    /\ wr_output' = [t \in Threads |-> None]
    /\ wrote' = [t \in Threads |-> "none"]
    /\ raised' = [t \in Threads |-> FALSE]
    /\ prev_failed' = [t \in Threads |-> FALSE]

\* lines 216-221 with 196-201: a signal runs signal_handler on the main
\* thread.  stop() returns at once when not running, and the handler's
\* sys.exit(0) then unwinds whatever the main thread was doing.
Signal ==
    /\ ProcessAlive
    /\ IF running
          THEN /\ running' = FALSE
               /\ stop_flag_set' = TRUE
               /\ mpc' = IF IsNone(monitor_thread) THEN "stop_restore"
                                                   ELSE "stop_join"
               /\ UNCHANGED <<locals, pc>>
          ELSE /\ ProcessExit
               /\ UNCHANGED <<running, stop_flag_set>>
    /\ UNCHANGED <<cooler_boost_enabled, last_coolerboost_enabled_at,
                   monitor_thread, cooler_file, enabled_since, config, now,
                   m_output, start_result>>

\* lines 203-204: join(timeout=5) returns when the thread ended or on timeout
StopJoin ==
    /\ mpc = "stop_join"
    /\ mpc' = "stop_restore"
    /\ UNCHANGED <<shared, config, now, locals, pc, m_output, start_result,
                   stop_flag_set>>

\* lines 207-209
StopRestore ==
    /\ mpc = "stop_restore"
    /\ mpc' = IF disable_on_exit /\ cooler_boost_enabled
                 THEN "stop_run_write" ELSE "stop_exit"
    /\ UNCHANGED <<shared, config, now, locals, pc, m_output, start_result,
                   stop_flag_set>>

\* line 210 -> 102: set_cooler_boost(False), the gateway write
StopRunWrite ==
    /\ mpc = "stop_run_write"
    /\ \E kind \in RunKinds, w \in SysfsWrites :
          /\ m_output' = run_main_script(kind, MainScriptBoost(w))
          /\ cooler_file' = IF kind = "completed" /\ w = "ok"
                               THEN FALSE ELSE cooler_file
    /\ mpc' = "stop_set_state"
    /\ UNCHANGED <<running, cooler_boost_enabled, last_coolerboost_enabled_at,
                   monitor_thread, enabled_since, config, now, locals, pc,
                   start_result, stop_flag_set>>

\* line 210 -> 104-110
StopSetState ==
    /\ mpc = "stop_set_state"
    /\ IF ~IsNone(m_output)
          THEN /\ cooler_boost_enabled' = FALSE
               /\ enabled_since' = 0
          ELSE UNCHANGED <<cooler_boost_enabled, enabled_since>>
    /\ mpc' = "stop_exit"
    /\ UNCHANGED <<running, last_coolerboost_enabled_at, monitor_thread,
                   cooler_file, config, now, locals, pc,
                   m_output, start_result, stop_flag_set>>

\* line 213: sys.exit(0); main()'s finally calls stop() again, which returns
StopExit ==
    /\ mpc = "stop_exit"
    /\ ProcessExit
    /\ UNCHANGED <<shared, config, now, m_output, start_result, stop_flag_set>>

Next ==
    \/ Tick
    \/ \E t \in Threads : LoopStep(t)
    \/ \E t \in Threads : CycleException(t)
    \/ Start
    \/ StartThread
    \/ Signal
    \/ StopJoin
    \/ StopRestore
    \/ StopRunWrite
    \/ StopSetState
    \/ StopExit

Spec == Init /\ [][Next]_vars

\* the steps of the main thread other than signal delivery
MainStep ==
    \/ Start
    \/ StartThread
    \/ StopJoin
    \/ StopRestore
    \/ StopRunWrite
    \/ StopSetState
    \/ StopExit

\* Both threads are scheduled: every call they make is bounded (timeout=10
\* on subprocess.run, timeout=5 on join, time.sleep(CHECK_INTERVAL)).
\* Signals, the passing of time and exceptions are not forced.
FairSpec ==
    /\ Spec
    /\ \A t \in Threads : WF_vars(LoopStep(t))
    /\ WF_vars(MainStep)

(***************************************************************************)
(* ThermalMonitor used as an object: start() and stop() called in any      *)
(* order by a caller that catches the SystemExit stop() ends with.         *)
(***************************************************************************)
\* lines 180-182: start() on a running monitor warns and returns None
ApiStartWhileRunning ==
    /\ mpc = "wait"
    /\ running
    /\ start_result # "None"
    /\ start_result' = "None"
    /\ UNCHANGED <<shared, config, now, locals, pc, mpc, m_output,
                   stop_flag_set>>

\* lines 196-201: stop() called directly
ApiStop ==
    /\ mpc = "wait"
    /\ running
    /\ running' = FALSE
    /\ stop_flag_set' = TRUE
    /\ mpc' = IF IsNone(monitor_thread) THEN "stop_restore" ELSE "stop_join"
    /\ UNCHANGED <<cooler_boost_enabled, last_coolerboost_enabled_at,
                   monitor_thread, cooler_file, enabled_since, config, now,
                   locals, pc, m_output, start_result>>

\* line 213 seen by such a caller: SystemExit is caught, the loop thread is
\* left as it is, and start() may be called again
ApiStopReturn ==
    /\ mpc = "stop_exit"
    /\ mpc' = IF \E t \in Threads : pc[t] = "unborn" THEN "start" ELSE "stopped"
    /\ UNCHANGED <<shared, config, now, locals, pc, m_output, start_result,
                   stop_flag_set>>

\* the shipped configuration: main.py in place, DISABLE_COOLER_BOOST_ON_EXIT
\* False (line 19), so stop() makes no gateway write
ApiInit ==
    /\ Init
    /\ script_ok
    /\ ~disable_on_exit

ApiNext ==
    \/ \E t \in Threads : LoopStep(t)
    \/ Start
    \/ StartThread
    \/ ApiStartWhileRunning
    \/ ApiStop
    \/ StopJoin
    \/ StopRestore
    \/ ApiStopReturn

SpecApi == ApiInit /\ [][ApiNext]_vars

(***************************************************************************)
(* Properties                                                              *)
(***************************************************************************)
\* thread t takes a step of check_temperatures that runs to its end
\* (it neither raises nor is cut short by the process exiting)
Completes(t) == pc'[t] # pc[t] /\ ~raised'[t] /\ pc'[t] # "killed"

Present(x) == x # <<>>
Over(x, threshold) == Present(x) /\ x[1] > threshold
AtOrAboveFloor(x, threshold) ==
    Present(x) /\ x[1] >= threshold - TEMP_OSCILLATION_FIX
BelowFloor(x, threshold) ==
    Present(x) /\ x[1] < threshold - TEMP_OSCILLATION_FIX
SomeOver(t) ==
    Over(cpu_temp[t], CPU_TEMP_THRESHOLD) \/ Over(gpu_temp[t], GPU_TEMP_THRESHOLD)
SomeUnsafe(t) ==
    \/ AtOrAboveFloor(cpu_temp[t], CPU_TEMP_THRESHOLD)
    \/ AtOrAboveFloor(gpu_temp[t], GPU_TEMP_THRESHOLD)
WithinTimeMargin == now - last_coolerboost_enabled_at <= TIME_OSCILLATION_FIX

\* C1: a cycle with a present reading strictly above its threshold decides
\* "boost on" whatever cooler_boost_enabled and last_coolerboost_enabled_at
\* are; when the tracked state is disabled the cycle calls
\* set_cooler_boost(True), when it is enabled the cycle makes no call.
C1_EnableNeverGated ==
    /\ [](\A t \in Threads :
            pc[t] = "apply" /\ SomeOver(t) => should_enable[t])
    /\ [][\A t \in Threads :
            pc[t] = "apply" /\ SomeOver(t) /\ Completes(t) =>
               IF cooler_boost_enabled
                  THEN wrote'[t] = "none" /\ pc'[t] = "sleep"
                  ELSE wrote'[t] = "on" /\ pc'[t] = "run_write"]_vars

\* an enable call made inside the time margin of an earlier stamp
C1_Witness ==
    \E t \in Threads :
        /\ pc[t] = "run_write" /\ wrote[t] = "on" /\ SomeOver(t)
        /\ last_coolerboost_enabled_at > 0 /\ WithinTimeMargin

C4_DisableCondition ==
    /\ [](\A t \in Threads :
            /\ pc[t] = "apply"
            /\ BelowFloor(cpu_temp[t], CPU_TEMP_THRESHOLD)
            /\ BelowFloor(gpu_temp[t], GPU_TEMP_THRESHOLD)
            => ~should_enable[t])
    /\ [][\A t \in Threads :
            /\ pc[t] = "apply" /\ cooler_boost_enabled
            /\ BelowFloor(cpu_temp[t], CPU_TEMP_THRESHOLD)
            /\ BelowFloor(gpu_temp[t], GPU_TEMP_THRESHOLD)
            /\ ~WithinTimeMargin
            /\ Completes(t)
            => wrote'[t] = "off" /\ pc'[t] = "run_write" /\ ~wr_enable'[t]]_vars

\* a disable call made one second past the time margin
C4_Witness ==
    \E t \in Threads :
        /\ pc[t] = "run_write" /\ wrote[t] = "off"
        /\ cooler_boost_enabled
        /\ last_coolerboost_enabled_at > 0
        /\ now - last_coolerboost_enabled_at = TIME_OSCILLATION_FIX + 1
        /\ BelowFloor(cpu_temp[t], CPU_TEMP_THRESHOLD)
        /\ BelowFloor(gpu_temp[t], GPU_TEMP_THRESHOLD)

\* C5: a cycle in which both readings are absent makes no set_cooler_boost
\* call and leaves cooler_boost_enabled and last_coolerboost_enabled_at as
\* they are, boost on or off, whatever time has passed.
C5_NoDataNoAction ==
    /\ [](\A t \in Threads :
            pc[t] \in {"apply", "run_write", "set_state", "stamp"}
               => Present(cpu_temp[t]) \/ Present(gpu_temp[t]))
    /\ [][\A t \in Threads :
            /\ pc[t] = "decide" /\ pc'[t] # pc[t]
            /\ ~Present(cpu_temp[t]) /\ ~Present(gpu_temp[t])
            => /\ pc'[t] \in {"sleep", "killed"}
               /\ wrote'[t] = "none"
               /\ cooler_boost_enabled' = cooler_boost_enabled
               /\ last_coolerboost_enabled_at' = last_coolerboost_enabled_at
               /\ cooler_file' = cooler_file]_vars

\* a cycle without data ended while boost was on and the time margin over
C5_Witness ==
    \E t \in Threads :
        /\ pc[t] = "sleep" /\ ~raised[t] /\ wrote[t] = "none"
        /\ ~Present(cpu_temp[t]) /\ ~Present(gpu_temp[t])
        /\ cooler_boost_enabled /\ ~WithinTimeMargin

\* C6: a failed gateway write (non-zero exit, timeout or exception), enable
\* or disable, leaves cooler_boost_enabled as it was; cooler_boost_enabled
\* changes only to the value of a write whose run_main_script result was a
\* success, and such a write did reach the actuator file.
C6_FailedWriteKeepsState ==
    [][/\ \A t \in Threads :
            pc[t] = "set_state" /\ pc'[t] # pc[t] /\ ~Present(wr_output[t])
               => cooler_boost_enabled' = cooler_boost_enabled
       /\ \A t \in Threads :
            pc[t] = "run_write" /\ pc'[t] = "set_state" /\ Present(wr_output'[t])
               => cooler_file' = wr_enable[t]
       /\ cooler_boost_enabled' # cooler_boost_enabled =>
            \/ \E t \in Threads :
                  /\ pc[t] = "set_state" /\ pc'[t] # pc[t]
                  /\ Present(wr_output[t])
                  /\ cooler_boost_enabled' = wr_enable[t]
            \/ /\ mpc = "stop_set_state" /\ mpc' # mpc
               /\ Present(m_output)
               /\ ~cooler_boost_enabled']_vars

\* a failed disable attempt has left boost tracked as enabled
C6_Witness ==
    \E t \in Threads :
        /\ pc[t] = "sleep" /\ wrote[t] = "off" /\ ~Present(wr_output[t])
        /\ cooler_boost_enabled

\* C7: last_coolerboost_enabled_at changes in a cycle only when that cycle
\* turned cooler_boost_enabled from False to True by a confirmed write; a
\* cycle whose enable write failed does not change it.
C7_StampOnlyOnConfirmedEnable ==
    [][last_coolerboost_enabled_at' # last_coolerboost_enabled_at =>
          \E t \in Threads :
              /\ pc[t] = "stamp" /\ pc'[t] # pc[t]
              /\ Present(wr_output[t])
              /\ cooler_boost_enabled]_vars

\* C8: a failed read, a failed write or an exception in a cycle does not end
\* the loop: loop steps never clear running, the loop test goes on to a new
\* cycle while running holds, the thread ends only after stop() set the
\* flag, and after a failed cycle a further cycle begins unless stop() ran.
C8_FailureKeepsLoopRunning ==
    /\ [](\A t \in Threads : pc[t] = "done" => stop_flag_set /\ ~running)
    /\ [][(\E t \in Threads : pc'[t] # pc[t]) => running' = running]_vars
    /\ [][\A t \in Threads :
            pc[t] = "loop_test" /\ running /\ pc'[t] # pc[t]
               => pc'[t] = "read_cpu"]_vars
    /\ \A t \in Threads :
          (pc[t] = "sleep" /\ CycleFailed(t))
             ~> ((pc[t] = "read_cpu" /\ prev_failed[t]) \/ stop_flag_set)

\* a new cycle has begun right after a failed one, the monitor still running
C8_Witness ==
    \E t \in Threads : pc[t] = "read_cpu" /\ prev_failed[t] /\ running

\* C9: when check_main_script fails, start() returns False, running stays
\* False, no thread is created and no cycle runs; the monitor is Running and
\* a loop thread exists only after the check succeeded.
C9_StartFailsFast ==
    /\ (~script_ok =>
          /\ ~running
          /\ monitor_thread = <<>>
          /\ \A t \in Threads : pc[t] = "unborn"
          /\ start_result \in {"pending", "False"}
          /\ (start_result = "False" => mpc = "exit"))
    /\ (start_result = "False" => ~script_ok)
    /\ (start_result = "True" =>
          script_ok /\ monitor_thread # <<>>
          /\ \E t \in Threads : pc[t] # "unborn")

\* start() has returned False and main() has ended
C9_Witness ==
    /\ start_result = "False" /\ mpc = "exit" /\ ~running
    /\ \A t \in Threads : pc[t] = "unborn"

\* C10: once stop() has cleared running, no new cycle begins; stop() is
\* never held up at the join, and it runs to its end even when the loop
\* thread has not ended; the loop thread ends (on its own or with the
\* process).
C10_CooperativeShutdown ==
    /\ [][stop_flag_set =>
            ~(\E t \in Threads : pc[t] = "loop_test" /\ pc'[t] = "read_cpu")]_vars
    /\ [](stop_flag_set => ~running)
    /\ [](mpc = "stop_join" => ENABLED StopJoin)
    /\ (stop_flag_set ~> mpc = "exit")
    /\ (stop_flag_set ~> \A t \in Threads : pc[t] \in {"unborn", "done", "killed"})

\* stop() ran to its end while the loop thread was still inside a cycle
C10_Witness ==
    /\ stop_flag_set /\ mpc = "exit"
    /\ \E t \in Threads : pc[t] = "killed"

InFlight(t) ==
    pc[t] \in {"read_cpu", "read_gpu", "decide", "apply", "run_write",
               "set_state", "stamp"}

\* C11: whatever start() and stop() calls were made, at most one loop
\* thread is inside check_temperatures at any time.
C11_SingleCycleInFlight ==
    \A t, u \in Threads : InFlight(t) /\ InFlight(u) => t = u

\* C12: once a signal has started stop() on a running monitor, the process
\* exits only from the end of stop() (line 213), further signals
\* notwithstanding; in particular, with restore-on-exit configured and
\* boost tracked as enabled, not before stop() has made its restore write.
C12_SignalRunsStopToCompletion ==
    [][/\ stop_flag_set /\ mpc # "exit" /\ mpc' = "exit"
       /\ disable_on_exit /\ cooler_boost_enabled
       => mpc = "stop_exit"]_vars

\* the loop of thread t runs for ever, no stop() and no exception
KeepsRunning(t) ==
    /\ [](mpc # "exit")
    /\ []~stop_flag_set
    /\ <>(pc[t] # "unborn")
    /\ []~raised[t]
\* from some point on every gateway write of thread t succeeds
WritesEventuallySucceed(t) ==
    <>[](pc[t] = "set_state" => Present(wr_output[t]))

\* C13: a cycle's call depends on the current decision and tracked state
\* only, so a call whose write failed is made again by the next cycle while
\* the decision persists.  Hence, the loop running: if readings stay above
\* threshold and writes eventually succeed, boost gets enabled (tracked and
\* actual); and if from some point on readings stay below the floor, the
\* time margin is over and writes succeed, boost ends up disabled.
C13_RetryNextCycle ==
    /\ [][\A t \in Threads :
            pc[t] = "apply" /\ Completes(t) =>
               /\ (should_enable[t] /\ ~cooler_boost_enabled
                      => wrote'[t] = "on" /\ pc'[t] = "run_write")
               /\ (~should_enable[t] /\ cooler_boost_enabled /\ ~WithinTimeMargin
                      => wrote'[t] = "off" /\ pc'[t] = "run_write")]_vars
    /\ \A t \in Threads :
          /\ KeepsRunning(t)
          /\ WritesEventuallySucceed(t)
          /\ [](pc[t] \in {"decide", "apply"} => SomeOver(t))
          => <>(cooler_boost_enabled /\ cooler_file)
    /\ \A t \in Threads :
          /\ KeepsRunning(t)
          /\ WritesEventuallySucceed(t)
          /\ <>[](pc[t] \in {"decide", "apply"} =>
                     /\ BelowFloor(cpu_temp[t], CPU_TEMP_THRESHOLD)
                     /\ BelowFloor(gpu_temp[t], GPU_TEMP_THRESHOLD))
          /\ <>[](cooler_boost_enabled => ~WithinTimeMargin)
          => <>[](~cooler_boost_enabled /\ ~cooler_file)

\* an enable call succeeds after an earlier one had failed: boost is off,
\* yet the stamp of an attempt lies within the time margin
C13_Witness ==
    \E t \in Threads :
        /\ pc[t] = "set_state" /\ wrote[t] = "on" /\ Present(wr_output[t])
        /\ ~cooler_boost_enabled /\ ~stop_flag_set
        /\ last_coolerboost_enabled_at > 0 /\ WithinTimeMargin

\* C14: a cycle calls set_cooler_boost(True) only when some present reading
\* is strictly above its threshold; readings all absent or at most equal to
\* the threshold never turn boost on from the disabled state.
C14_StrictEnableThreshold ==
    [][\A t \in Threads :
          pc[t] = "apply" /\ wrote'[t] = "on" => SomeOver(t)]_vars

\* the call a cycle makes at lines 150-164 when x, with the given threshold,
\* is its only reading
DecidesFrom(t, x, threshold) ==
    /\ (Over(x, threshold) /\ ~cooler_boost_enabled
           => wrote'[t] = "on" /\ pc'[t] = "run_write")
    /\ (Over(x, threshold) /\ cooler_boost_enabled
           => wrote'[t] = "none" /\ pc'[t] = "sleep")
    /\ (~Over(x, threshold) /\ cooler_boost_enabled =>
           IF BelowFloor(x, threshold) /\ ~WithinTimeMargin
              THEN wrote'[t] = "off" /\ pc'[t] = "run_write"
              ELSE wrote'[t] = "none" /\ pc'[t] = "sleep")

\* C15: a failed read of one sensor does not keep the other from being read
\* and used; with exactly one reading absent the cycle decides from the
\* present one alone: enable if it is strictly above its threshold;
\* otherwise, while enabled, stay enabled unless it is strictly below the
\* floor and the time margin is over.
C15_PartialData ==
    /\ [][\A t \in Threads :
            /\ (pc[t] = "read_cpu" /\ Completes(t) => pc'[t] = "read_gpu")
            /\ (pc[t] = "read_gpu" /\ Completes(t) =>
                   pc'[t] = "decide" /\ cpu_temp'[t] = cpu_temp[t])]_vars
    /\ [][\A t \in Threads :
            pc[t] = "apply" /\ Completes(t) =>
               /\ (~Present(cpu_temp[t]) /\ Present(gpu_temp[t])
                      => DecidesFrom(t, gpu_temp[t], GPU_TEMP_THRESHOLD))
               /\ (Present(cpu_temp[t]) /\ ~Present(gpu_temp[t])
                      => DecidesFrom(t, cpu_temp[t], CPU_TEMP_THRESHOLD))]_vars

\* boost is being turned off on the CPU reading alone, the GPU read failed
C15_Witness ==
    \E t \in Threads :
        /\ pc[t] = "run_write" /\ wrote[t] = "off"
        /\ ~Present(gpu_temp[t])
        /\ BelowFloor(cpu_temp[t], CPU_TEMP_THRESHOLD)

\* C16: a cycle calls set_cooler_boost only when its decision differs from
\* the tracked state: no enable call while cooler_boost_enabled is true and
\* no disable call while it is false, both where the call is decided
\* (lines 151, 155) and where it reaches the gateway (line 102); a cycle
\* makes at most one call, after both of its reads.
C16_WriteOnlyOnChange ==
    /\ [][\A t \in Threads :
            wrote'[t] # wrote[t] /\ wrote'[t] # "none" =>
               /\ pc[t] = "apply" /\ wrote[t] = "none"
               /\ (wrote'[t] = "on" => ~cooler_boost_enabled)
               /\ (wrote'[t] = "off" => cooler_boost_enabled)]_vars
    /\ [][\A t \in Threads :
            pc[t] = "run_write" /\ pc'[t] = "set_state"
               => cooler_boost_enabled # wr_enable[t]]_vars

\* C17: cooler_boost_enabled and last_coolerboost_enabled_at are written by
\* the loop thread alone, so while a cycle is in flight every change of
\* them is a step of that cycle.
C17_LoopOwnsActuatorState ==
    [][/\ \/ cooler_boost_enabled' # cooler_boost_enabled
          \/ last_coolerboost_enabled_at' # last_coolerboost_enabled_at
       /\ \E t \in Threads : InFlight(t)
       => \E t \in Threads :
             pc[t] \in {"set_state", "stamp"} /\ pc'[t] # pc[t]]_vars

\* C18: with DISABLE_COOLER_BOOST_ON_EXIT set and the disable write of
\* stop() successful, the actuator is off when stop() finishes (line 213),
\* whatever the loop thread was doing in the meantime.
C18_RestoreOnExit ==
    [][/\ mpc = "stop_exit" /\ mpc' = "exit"
       /\ disable_on_exit /\ Present(m_output)
       => ~cooler_file]_vars

\* C19: the actuator is off at construction, only set_cooler_boost writes
\* it and a failed write leaves it unchanged; then at the step
\* that completes a cycle the tracked cooler_boost_enabled equals the
\* actuator.
C19_TrackedMirrorsActuator ==
    [][\A t \in Threads :
         InFlight(t) /\ pc'[t] = "sleep" /\ ~raised'[t]
            => cooler_boost_enabled' = cooler_file']_vars

====
